---- MODULE Spec2Model ----
(***************************************************************************)
(* Zone finder (src/src/App.jsx): the ray-casting point-in-polygon test,   *)
(* the first-match zone lookup, the construction of the zone registry and  *)
(* the address search handler of the App component.                        *)
(*                                                                         *)
(* Numbers.  Every JavaScript number is an IEEE-754 binary floating-point  *)
(* value and every arithmetic operator rounds its exact result to the      *)
(* nearest representable value, ties to even.  The model keeps exactly     *)
(* that semantics with a significand of Precision bits instead of 53: a    *)
(* number is a pair <<n, d>> standing for n/d (d = 0 encodes the           *)
(* non-finite results of a division by zero: <<1,0>> = +Infinity,          *)
(* <<-1,0>> = -Infinity, <<0,0>> = NaN), and FAdd, FSub, FMul, FDiv round  *)
(* with Rnd.  Coordinates are drawn from the representable integers of a   *)
(* small grid.                                                             *)
(***************************************************************************)
EXTENDS Integers, Sequences, FiniteSets, TLC

VARIABLES
    \* ---- one call of isPointInPolygon(point, polygon)
    point,          \* the argument point = [lng, lat]
    polygon,        \* the argument ring, a sequence of [x, y] vertices
    inside,         \* the value the call returned
    pc,             \* "idle" | "call" | "done"
    edges,          \* what each loop iteration of the call evaluated (history)
    \* ---- the module and the App component
    FIRE_DISTRICT_ZONES,    \* the imported zone data, as configured
    ZONES,          \* the registry built from it when the module loads
    address,        \* useState('')
    currentZone,    \* useState(null)
    loading,        \* useState(false)
    error,          \* useState(null)
    lng, lat,       \* useState(-122.2015), useState(47.6101)
    marker,         \* marker.current: null or the marker's [lng, lat]
    mapCenter,      \* the centre the map last flew to, null before
    appPc,          \* "load" | "idle" | "fetch" | "json": where the module / handleAddressSearch stands
    data,           \* the geocoder's parsed response of the running search
    outcome,        \* how the last search ended (history)
    findZoneCalls   \* the arguments findZone was called with in the last search (history)

ringVars == <<point, polygon, inside, pc, edges>>
appVars == <<FIRE_DISTRICT_ZONES, ZONES, address, currentZone, loading, error,
             lng, lat, marker, mapCenter, appPc, data, outcome, findZoneCalls>>
vars == <<ringVars, appVars>>

----------------------------------------------------------------------------
(* Bounds of the model *)

Precision == 2      \* significand bits of the model's floating-point format
MaxY == 3           \* grid latitudes 0..MaxY
MaxZones == 2       \* zones in a configured registry

----------------------------------------------------------------------------
(* Floating-point arithmetic, round to nearest, ties to even *)

Abs(n) == IF n < 0 THEN -n ELSE n
Sign(n) == IF n < 0 THEN -1 ELSE IF n > 0 THEN 1 ELSE 0

RECURSIVE Pow2(_)
Pow2(k) == IF k <= 0 THEN 1 ELSE 2 * Pow2(k - 1)

\* the e with 2^e <= a/d < 2^(e+1), for a > 0, d > 0
RECURSIVE Exponent(_, _)
Exponent(a, d) ==
    IF a >= 2 * d THEN Exponent(a, 2 * d) + 1
    ELSE IF a < d THEN Exponent(2 * a, d) - 1
    ELSE 0

\* the integer nearest to A/B (A >= 0, B > 0), a tie going to the even one
NearestEven(A, B) ==
    LET m == A \div B
        r == A - m * B
    IN  IF 2 * r > B \/ (2 * r = B /\ m % 2 = 1) THEN m + 1 ELSE m

\* n/d in lowest terms, d a power of two
RECURSIVE Reduce(_, _)
Reduce(n, d) ==
    IF d > 1 /\ n % 2 = 0 THEN Reduce(n \div 2, d \div 2) ELSE <<n, d>>

\* the representable value nearest to the exact value v[1]/v[2]
Rnd(v) ==
    LET n == v[1]
        d == v[2]
    IN  IF d = 0 THEN <<Sign(n), 0>>
        ELSE IF n = 0 THEN <<0, 1>>
        ELSE LET a == Abs(n)
                 s == Precision - 1 - Exponent(a, d)   \* one unit in the last place is 2^(-s)
                 A == IF s > 0 THEN a * Pow2(s) ELSE a
                 B == IF s < 0 THEN d * Pow2(-s) ELSE d
                 m == NearestEven(A, B)
             IN  IF s > 0 THEN Reduce(Sign(n) * m, Pow2(s))
                 ELSE <<Sign(n) * m * Pow2(-s), 1>>

\* a numeric literal or input value
Num(c) == Rnd(<<c, 1>>)

FAdd(a, b) == Rnd(<<a[1] * b[2] + b[1] * a[2], a[2] * b[2]>>)
FSub(a, b) == Rnd(<<a[1] * b[2] - b[1] * a[2], a[2] * b[2]>>)
FMul(a, b) == Rnd(<<a[1] * b[1], a[2] * b[2]>>)
FDiv(a, b) == Rnd(<<Sign(b[1]) * a[1] * b[2], Abs(b[1]) * a[2]>>)
\* a < b; false when either side is NaN
FLt(a, b) == a[1] * b[2] < b[1] * a[2]
FGt(a, b) == FLt(b, a)

----------------------------------------------------------------------------
(* Inputs *)

Representable(S) == {c \in S : Num(c) = <<c, 1>>}
XS == Representable({0, 1, 2})
YS == Representable(0..MaxY)
Grid == XS \X YS

\* the same ring started k vertices later, listed backwards, explicitly closed
Rotate(r, k) == [n \in 1..Len(r) |-> r[((n - 1 + k) % Len(r)) + 1]]
Reverse(r) == [n \in 1..Len(r) |-> r[Len(r) + 1 - n]]
Closed(r) == Append(r, r[1])

\* a square zone as the source writes its corners: NW, NE, SE, SW
Square(x1, x2, y1, y2) == <<(<<x1, y2>>), (<<x2, y2>>), (<<x2, y1>>), (<<x1, y1>>)>>

Triangles == [1..3 -> Grid]
Rectangles ==
    LET corners == {Square(x1, x2, y1, y2) : x1 \in XS, x2 \in XS, y1 \in YS, y2 \in YS}
        proper == {r \in corners : r[1][1] < r[2][1] /\ r[3][2] < r[2][2]}
        turned == {Rotate(r, k) : r \in proper, k \in 0..3}
        open == turned \cup {Reverse(r) : r \in turned}
    IN  open \cup {Closed(r) : r \in open}
Rings == Triangles \cup Rectangles

----------------------------------------------------------------------------
(* isPointInPolygon *)

\* variant: both comparisons inclusive, (yi >= lat) !== (yj >= lat)
CrossesInclusive(yi, yj, y) == (~FLt(yi, y)) # (~FLt(yj, y))
\* variant: one comparison inclusive, (yi > lat) !== (yj >= lat)
CrossesMixed(yi, yj, y) == FGt(yi, y) # (~FLt(yj, y))

\* (yi > lat) !== (yj > lat)
Crosses(yi, yj, y) == FGt(yi, y) # FGt(yj, y)

\* variant: the offset of the edge's start is left out
IntersectLngNoOffset(xi, yi, xj, yj, y) ==
    FDiv(FMul(FSub(xj, xi), FSub(y, yi)), FSub(yj, yi))

\* (xj - xi) * (lat - yi) / (yj - yi) + xi
IntersectLng(xi, yi, xj, yj, y) ==
    FAdd(FDiv(FMul(FSub(xj, xi), FSub(y, yi)), FSub(yj, yi)), xi)

\* variant: & for &&, so that both operands are evaluated for every edge
LoopBodyEager(p, poly, ii, jj, st) ==
    LET x == Num(p[1])
        y == Num(p[2])
        xi == Num(poly[ii][1])
        yi == Num(poly[ii][2])
        xj == Num(poly[jj][1])
        yj == Num(poly[jj][2])
        intersect == Crosses(yi, yj, y) /\ FLt(x, IntersectLng(xi, yi, xj, yj, y))
    IN  [inside |-> IF intersect THEN ~st.inside ELSE st.inside,
         edges |-> Append(st.edges,
                     [yi |-> yi, yj |-> yj, divided |-> TRUE,
                      divisor |-> FSub(yj, yi), toggled |-> intersect])]

\* one iteration of the loop body for the edge from polygon[j] to polygon[i]:
\* the flag after it, and what the iteration evaluated.  && evaluates its right
\* operand, the division in it, only when its left operand is true.
LoopBody(p, poly, ii, jj, st) ==
    LET x == Num(p[1])
        y == Num(p[2])
        xi == Num(poly[ii][1])
        yi == Num(poly[ii][2])
        xj == Num(poly[jj][1])
        yj == Num(poly[jj][2])
        crossing == Crosses(yi, yj, y)
        intersect == crossing /\ FLt(x, IntersectLng(xi, yi, xj, yj, y))
    IN  [inside |-> IF intersect THEN ~st.inside ELSE st.inside,
         edges |-> Append(st.edges,
                     [yi |-> yi, yj |-> yj, divided |-> crossing,
                      divisor |-> IF crossing THEN FSub(yj, yi) ELSE <<1, 1>>,
                      toggled |-> intersect])]

\* variant: the loop advances i and leaves j at the last vertex (i++ for j = i++)
RECURSIVE LoopFromStaleJ(_, _, _, _, _)
LoopFromStaleJ(p, poly, ii, jj, st) ==
    IF ii > Len(poly) THEN st
    ELSE LoopFromStaleJ(p, poly, ii + 1, jj, LoopBody(p, poly, ii, jj, st))

\* for (let i = 0, j = polygon.length - 1; i < polygon.length; j = i++)
RECURSIVE LoopFrom(_, _, _, _, _)
LoopFrom(p, poly, ii, jj, st) ==
    IF ii > Len(poly) THEN st
    ELSE LoopFrom(p, poly, ii + 1, ii, LoopBody(p, poly, ii, jj, st))

\* variant: the loop pairs consecutive vertices only and leaves out the edge
\* from the last vertex back to the first (i = 1, j = 0 at the start)
RunLoopNoWrap(p, poly) == LoopFrom(p, poly, 2, 1, [inside |-> FALSE, edges |-> <<>>])

RunLoop(p, poly) == LoopFrom(p, poly, 1, Len(poly), [inside |-> FALSE, edges |-> <<>>])

isPointInPolygon(p, poly) == RunLoop(p, poly).inside

----------------------------------------------------------------------------
(* The zone data.  Longitudes and latitudes of the App are written in units
   of 0.005 degrees from the south-west corner (-122.2015, 47.5901) of the
   example zones, an order-preserving change of scale: every edge of these
   zones is horizontal or vertical, so the test compares coordinates only. *)

Lng2015 == 0        \* -122.2015
Lng1815 == 4        \* -122.1815
Lng1615 == 8        \* -122.1615
Lat5901 == 0        \* 47.5901
Lat6101 == 4        \* 47.6101
Lat6301 == 8        \* 47.6301

null == [null |-> TRUE]

DISTRICT_COLORS ==
    <<"#FF6B6B", "#4ECDC4", "#45B7D1", "#96CEB4", "#FFEAA7",
      "#DFE6E9", "#74B9FF", "#A29BFE", "#FD79A8", "#FDCB6E">>

Zone1 == [id |-> "zone-1", name |-> "Fire District 1",
          coordinates |-> <<Closed(Square(Lng2015, Lng1815, Lat5901, Lat6101))>>]
Zone2 == [id |-> "zone-2", name |-> "Fire District 2",
          coordinates |-> <<Closed(Square(Lng1815, Lng1615, Lat5901, Lat6101))>>]
Zone3 == [id |-> "zone-3", name |-> "Fire District 3",
          coordinates |-> <<Closed(Square(Lng2015, Lng1815, Lat6101, Lat6301))>>]
ExampleZones == <<Zone1, Zone2, Zone3>>

\* other data the import may hold: a district overlapping zone-1 and zone-2,
\* and a zone whose ring has two vertices only
ZoneWide == [id |-> "zone-wide", name |-> "Fire District 4",
             coordinates |-> <<Closed(Square(Lng2015, Lng1615, Lat5901, Lat6101))>>]
ZoneTwoVertices == [id |-> "zone-line", name |-> "Fire District 5",
                    coordinates |-> <<(<<(<<Lng2015, Lat5901>>), (<<Lng1615, Lat6301>>)>>)>>]
ZonePool == {Zone1, Zone2, Zone3, ZoneWide, ZoneTwoVertices}
Registries ==
    {ExampleZones} \cup
    {r \in UNION {[1..n -> ZonePool] : n \in 0..MaxZones} :
        \A a \in DOMAIN r : \A b \in DOMAIN r : r[a] = r[b] => a = b}

\* where the geocoder may place an address: the zones' corner coordinates
\* and the midpoints between them
AppXS == Representable({Lng2015, (Lng2015 + Lng1815) \div 2, Lng1815,
                        (Lng1815 + Lng1615) \div 2, Lng1615})
AppYS == Representable({Lat5901, (Lat5901 + Lat6101) \div 2, Lat6101,
                        (Lat6101 + Lat6301) \div 2, Lat6301})
AppGrid == AppXS \X AppYS

\* FIRE_DISTRICT_ZONES.map((zone, index) => ({...zone, color: DISTRICT_COLORS[index % DISTRICT_COLORS.length]}))
WithColors(zones) ==
    [k \in 1..Len(zones) |->
        [id |-> zones[k].id, name |-> zones[k].name,
         coordinates |-> zones[k].coordinates,
         color |-> DISTRICT_COLORS[((k - 1) % Len(DISTRICT_COLORS)) + 1]]]

----------------------------------------------------------------------------
(* findZone *)

\* variant: the scan keeps the last zone that contains the point
RECURSIVE FindLastFrom(_, _, _, _)
FindLastFrom(zones, k, coordinates, found) ==
    IF k > Len(zones) THEN found
    ELSE FindLastFrom(zones, k + 1, coordinates,
            IF isPointInPolygon(coordinates, zones[k].coordinates[1]) THEN zones[k] ELSE found)
findZoneLastMatch(coordinates) == FindLastFrom(ZONES, 1, coordinates, null)

RECURSIVE FindFrom(_, _, _)
FindFrom(zones, k, coordinates) ==
    IF k > Len(zones) THEN null
    ELSE IF isPointInPolygon(coordinates, zones[k].coordinates[1]) THEN zones[k]
    ELSE FindFrom(zones, k + 1, coordinates)

findZone(coordinates) == FindFrom(ZONES, 1, coordinates)

----------------------------------------------------------------------------
(* The geocoder's answers and the address field *)

Texts == {"", " ", "1 Main St"}
Trim(s) == IF s = " " THEN "" ELSE s

Responses ==
    {[message |-> "Not Authorized - Invalid Token"], [features |-> <<>>],
     [features |-> <<[place_name |-> "1 Main St"]>>]}
    \cup {[features |-> <<[center |-> c, place_name |-> "1 Main St"]>>] : c \in AppGrid}

HasFeature(d) == "features" \in DOMAIN d /\ Len(d.features) > 0

NotFound == [message |-> "Address not found. Please try a different address."]
GeocodingError == [message |-> "Error geocoding address. Please try again."]

RingIdle ==
    /\ point = <<0, 0>>
    /\ polygon = <<>>
    /\ inside = FALSE
    /\ pc = "idle"
    /\ edges = <<>>

AppState0 ==
    /\ ZONES = <<>>
    /\ address = ""
    /\ currentZone = null
    /\ loading = FALSE
    /\ error = null
    /\ lng = Lng2015
    /\ lat = Lat6101
    /\ marker = null
    /\ mapCenter = null
    /\ appPc = "load"
    /\ data = null
    /\ outcome = "none"
    /\ findZoneCalls = <<>>

Init ==
    /\ FIRE_DISTRICT_ZONES \in Registries
    /\ AppState0
    /\ RingIdle

\* const ZONES = FIRE_DISTRICT_ZONES.map(...), when the module is evaluated
LoadModule ==
    /\ appPc = "load"
    /\ ZONES' = WithColors(FIRE_DISTRICT_ZONES)
    /\ appPc' = "idle"
    /\ UNCHANGED <<FIRE_DISTRICT_ZONES, address, currentZone, loading, error, lng, lat,
                   marker, mapCenter, data, outcome, findZoneCalls>>
    /\ UNCHANGED ringVars

\* onChange of the address input, which is disabled while loading
setAddress(text) ==
    /\ appPc = "idle"
    /\ ~loading
    /\ address' = text
    /\ UNCHANGED <<FIRE_DISTRICT_ZONES, ZONES, currentZone, loading, error, lng, lat,
                   marker, mapCenter, appPc, data, outcome, findZoneCalls>>
    /\ UNCHANGED ringVars

\* variant: the search starts without clearing error and currentZone
SubmitWithoutReset ==
    /\ appPc = "idle"
    /\ ~(loading \/ Trim(address) = "")
    /\ loading' = TRUE
    /\ appPc' = "fetch"
    /\ data' = null
    /\ outcome' = "none"
    /\ findZoneCalls' = <<>>
    /\ UNCHANGED <<FIRE_DISTRICT_ZONES, ZONES, address, currentZone, error,
                   lng, lat, marker, mapCenter>>
    /\ UNCHANGED ringVars

\* handleAddressSearch up to its first await; the form submits only while
\* the button is enabled: disabled={loading || !address.trim()}
Submit ==
    /\ appPc = "idle"
    /\ ~(loading \/ Trim(address) = "")
    /\ loading' = TRUE
    /\ error' = null
    /\ currentZone' = null
    /\ appPc' = "fetch"
    /\ data' = null
    /\ outcome' = "none"
    /\ findZoneCalls' = <<>>
    /\ UNCHANGED <<FIRE_DISTRICT_ZONES, ZONES, address, lng, lat, marker, mapCenter>>
    /\ UNCHANGED ringVars

\* await fetch(...) resolves
FetchFulfilled ==
    /\ appPc = "fetch"
    /\ appPc' = "json"
    /\ UNCHANGED <<FIRE_DISTRICT_ZONES, ZONES, address, currentZone, loading, error,
                   lng, lat, marker, mapCenter, data, outcome, findZoneCalls>>
    /\ UNCHANGED ringVars

\* variant: the catch block only logs the error
CaughtSilently(how) ==
    /\ error' = error
    /\ loading' = FALSE
    /\ appPc' = "idle"
    /\ outcome' = how

\* catch (err) { setError(...) } finally { setLoading(false) }
Caught(how) ==
    /\ error' = GeocodingError
    /\ loading' = FALSE
    /\ appPc' = "idle"
    /\ outcome' = how

\* await fetch(...) rejects
FetchRejected ==
    /\ appPc = "fetch"
    /\ Caught("fetchFailed")
    /\ UNCHANGED <<FIRE_DISTRICT_ZONES, ZONES, address, currentZone, lng, lat,
                   marker, mapCenter, data, findZoneCalls>>
    /\ UNCHANGED ringVars

\* await response.json() rejects
JsonRejected ==
    /\ appPc = "json"
    /\ Caught("parseFailed")
    /\ UNCHANGED <<FIRE_DISTRICT_ZONES, ZONES, address, currentZone, lng, lat,
                   marker, mapCenter, data, findZoneCalls>>
    /\ UNCHANGED ringVars

\* await response.json() resolves with d: the rest of the try block, then finally
JsonFulfilled(d) ==
    /\ appPc = "json"
    /\ data' = d
    /\ IF HasFeature(d)
       THEN IF "center" \in DOMAIN d.features[1]
            THEN LET center == d.features[1].center
                 IN  /\ mapCenter' = center
                     /\ marker' = center
                     /\ findZoneCalls' = Append(findZoneCalls, center)
                     /\ currentZone' = findZone(center)
                     /\ lng' = center[1]
                     /\ lat' = center[2]
                     /\ loading' = FALSE
                     /\ appPc' = "idle"
                     /\ outcome' = "feature"
                     /\ UNCHANGED error
            \* const [lng, lat] = undefined throws a TypeError
            ELSE /\ Caught("threw")
                 /\ UNCHANGED <<currentZone, lng, lat, marker, mapCenter, findZoneCalls>>
       ELSE /\ error' = NotFound
            /\ loading' = FALSE
            /\ appPc' = "idle"
            /\ outcome' = "noFeature"
            /\ UNCHANGED <<currentZone, lng, lat, marker, mapCenter, findZoneCalls>>
    /\ UNCHANGED <<FIRE_DISTRICT_ZONES, ZONES, address>>
    /\ UNCHANGED ringVars

Next ==
    \/ LoadModule
    \/ \E text \in Texts : setAddress(text)
    \/ Submit
    \/ FetchFulfilled
    \/ FetchRejected
    \/ JsonRejected
    \/ \E d \in Responses : JsonFulfilled(d)

Spec == Init /\ [][Next]_vars

----------------------------------------------------------------------------
(* One call of isPointInPolygon on a ring and a point of the grid *)

InitRing ==
    /\ point \in Grid
    /\ polygon \in Rings
    /\ inside = FALSE
    /\ pc = "call"
    /\ edges = <<>>
    /\ FIRE_DISTRICT_ZONES = <<>>
    /\ AppState0

Call ==
    /\ pc = "call"
    /\ inside' = isPointInPolygon(point, polygon)
    /\ edges' = RunLoop(point, polygon).edges
    /\ pc' = "done"
    /\ UNCHANGED <<point, polygon>>
    /\ UNCHANGED appVars

NextRing == Call

SpecRing == InitRing /\ [][NextRing]_vars

----------------------------------------------------------------------------
(* Exact plane geometry on the integer grid, the reference the claims about
   interior and exterior points are measured against *)

Min(S) == CHOOSE m \in S : \A n \in S : m <= n
Max(S) == CHOOSE m \in S : \A n \in S : n <= m

\* twice the signed area of the triangle a, b, c
Cross(a, b, c) == (b[1] - a[1]) * (c[2] - a[2]) - (b[2] - a[2]) * (c[1] - a[1])
Next1(r, n) == r[(n % Len(r)) + 1]
Turns(r) == {Cross(r[n], Next1(r, n), Next1(r, n + 1)) : n \in 1..Len(r)}
Sides(p, r) == {Cross(r[n], Next1(r, n), p) : n \in 1..Len(r)}

IsConvex(r) == (\A c \in Turns(r) : c > 0) \/ (\A c \in Turns(r) : c < 0)
StrictlyInterior(p, r) == (\A c \in Sides(p, r) : c > 0) \/ (\A c \in Sides(p, r) : c < 0)
StrictlyExterior(p, r) == (\E c \in Sides(p, r) : c > 0) /\ (\E c \in Sides(p, r) : c < 0)

\* the ring without an explicit closing vertex
Opened(r) == IF Len(r) > 1 /\ r[Len(r)] = r[1] THEN SubSeq(r, 1, Len(r) - 1) ELSE r
\* every edge is horizontal or vertical
IsRectilinear(r) ==
    \A n \in 1..Len(r) : r[n][1] = Next1(r, n)[1] \/ r[n][2] = Next1(r, n)[2]
\* the four corners of an axis-aligned rectangle of positive area, in either
\* winding, from any starting corner, explicitly closed or not
IsAxisRectangle(r) ==
    LET o == Opened(r)
    IN  /\ Len(o) = 4
        /\ Cardinality({o[n] : n \in 1..4}) = 4
        /\ Cardinality({o[n][1] : n \in 1..4}) = 2
        /\ Cardinality({o[n][2] : n \in 1..4}) = 2
        /\ IsRectilinear(o)
InsideBox(p, r) ==
    /\ Min({v[1] : v \in {r[n] : n \in 1..Len(r)}}) < p[1]
    /\ p[1] < Max({v[1] : v \in {r[n] : n \in 1..Len(r)}})
    /\ Min({v[2] : v \in {r[n] : n \in 1..Len(r)}}) < p[2]
    /\ p[2] < Max({v[2] : v \in {r[n] : n \in 1..Len(r)}})
OutsideBox(p, r) ==
    \/ p[1] < Min({v[1] : v \in {r[n] : n \in 1..Len(r)}})
    \/ p[1] > Max({v[1] : v \in {r[n] : n \in 1..Len(r)}})
    \/ p[2] < Min({v[2] : v \in {r[n] : n \in 1..Len(r)}})
    \/ p[2] > Max({v[2] : v \in {r[n] : n \in 1..Len(r)}})

----------------------------------------------------------------------------
(* Claims about isPointInPolygon, checked under SpecRing *)

\* C2: for every ring of at least 3 vertices, every cyclic rotation of its
\* vertex list and every point, isPointInPolygon returns for the rotated list
\* what it returned for the original list.
C2_RotationInvariance ==
    pc = "done" =>
        \A k \in 1..(Len(polygon) - 1) :
            isPointInPolygon(point, Rotate(polygon, k)) = inside
C2_Witness ==
    /\ pc = "done" /\ inside
    /\ Rotate(polygon, 1) # polygon
    /\ isPointInPolygon(point, Rotate(polygon, 1))

\* C3: for every ring of at least 3 vertices and every point, the ring with
\* its first vertex repeated at the end gives what the ring without that
\* duplicate gave.
C3_ClosureIndependence ==
    pc = "done" => isPointInPolygon(point, Closed(polygon)) = inside
C3_Witness ==
    /\ pc = "done" /\ inside
    /\ polygon[Len(polygon)] # polygon[1]
    /\ isPointInPolygon(point, Closed(polygon))

\* C4, as claimed: for every convex ring and every point not on its
\* boundary, isPointInPolygon is true exactly when the point is strictly
\* interior (refuted: a slanted edge's intersection longitude is rounded).
C4_ConvexExact ==
    (pc = "done" /\ IsConvex(Opened(polygon))) =>
        /\ StrictlyInterior(point, Opened(polygon)) => inside
        /\ StrictlyExterior(point, Opened(polygon)) => ~inside
\* C4, amended: for every axis-aligned rectangle and every point not on its
\* boundary, isPointInPolygon is true exactly when the point is strictly
\* interior and false when it is strictly exterior.
C4_RectangleExact ==
    (pc = "done" /\ IsAxisRectangle(polygon)) =>
        /\ InsideBox(point, polygon) => inside
        /\ OutsideBox(point, polygon) => ~inside
C4_Witness ==
    /\ pc = "done" /\ IsAxisRectangle(polygon)
    /\ InsideBox(point, polygon) /\ inside

\* C7, as claimed: for every ring of at least 3 vertices and every point, the
\* reversed vertex list gives what the original list gave (refuted: the two
\* directions of a slanted edge round its intersection longitude differently).
C7_ReversalInvariance ==
    pc = "done" => isPointInPolygon(point, Reverse(polygon)) = inside
\* C7, amended: for every ring whose edges are all horizontal or vertical and
\* every point, the reversed vertex list gives what the original list gave.
C7_RectilinearReversal ==
    (pc = "done" /\ IsRectilinear(polygon)) =>
        isPointInPolygon(point, Reverse(polygon)) = inside
C7_Witness ==
    /\ pc = "done" /\ IsRectilinear(polygon) /\ inside
    /\ Reverse(polygon) # polygon
    /\ isPointInPolygon(point, Reverse(polygon))

\* C9: the division by (yj - yi) is evaluated only for an edge with
\* yi # yj, so its divisor is never zero, and an edge whose endpoints have
\* equal latitude never toggles the inside flag.
C9_DivisionGuarded ==
    \A n \in 1..Len(edges) :
        /\ edges[n].divided => (edges[n].yi # edges[n].yj /\ edges[n].divisor[1] # 0)
        /\ edges[n].yi = edges[n].yj => (~edges[n].divided /\ ~edges[n].toggled)
C9_Witness ==
    /\ pc = "done"
    /\ \E n \in 1..Len(edges) : edges[n].yi = edges[n].yj /\ edges[n].yi = Num(point[2])
    /\ \E n \in 1..Len(edges) : edges[n].divided

----------------------------------------------------------------------------
(* Claims about the registry, findZone and handleAddressSearch, checked
   under Spec *)

Ring(zone) == zone.coordinates[1]
Containing(c) == {k \in 1..Len(ZONES) : isPointInPolygon(c, Ring(ZONES[k]))}
Searched == appPc = "idle" /\ outcome = "feature"

\* C1: for every point and every ordered zone list, findZone returns the
\* zone with the smallest index whose outer ring contains the point, also
\* when several zones contain it, and null when no zone contains it, which
\* includes the list with zero zones.
C1_FirstMatchWins ==
    Searched =>
        LET c == findZoneCalls[1]
        IN  IF Containing(c) = {} THEN currentZone = null
            ELSE currentZone = ZONES[Min(Containing(c))]
C1_Witness ==
    /\ Searched
    /\ Cardinality(Containing(findZoneCalls[1])) > 1
    /\ currentZone = ZONES[1]
    /\ Max(Containing(findZoneCalls[1])) = 2

\* C5, as claimed: a zone whose ring has fewer than 3 vertices, supplied
\* when ZONES is constructed, is rejected at construction and never is a
\* registry entry that findZone hands to isPointInPolygon.
C5_MalformedZoneRejected ==
    appPc # "load" => \A k \in 1..Len(ZONES) : Len(Ring(ZONES[k])) >= 3

\* the shared edge of zone-1 and zone-2: longitude -122.1815, latitudes
\* 47.5901 to 47.6101
OnSharedEdge(c) == c[1] = Lng1815 /\ Lat5901 <= c[2] /\ c[2] <= Lat6101
ExampleRegistry == FIRE_DISTRICT_ZONES = ExampleZones

\* C6, as claimed: for any point of the closed shared edge of zone-1 and
\* zone-2 exactly one of the two squares contains the point, and findZone
\* returns one of the two, never null.
C6_SharedEdgeClosed ==
    (Searched /\ ExampleRegistry /\ OnSharedEdge(findZoneCalls[1])) =>
        /\ isPointInPolygon(findZoneCalls[1], Ring(Zone1))
             # isPointInPolygon(findZoneCalls[1], Ring(Zone2))
        /\ currentZone # null
        /\ currentZone.id \in {"zone-1", "zone-2"}
\* C6, amended: the same for any point of the shared edge other than its
\* northern end vertex (-122.1815, 47.6101).
C6_SharedEdgeBelowTop ==
    (Searched /\ ExampleRegistry /\ OnSharedEdge(findZoneCalls[1])
        /\ findZoneCalls[1][2] # Lat6101) =>
        /\ isPointInPolygon(findZoneCalls[1], Ring(Zone1))
             # isPointInPolygon(findZoneCalls[1], Ring(Zone2))
        /\ currentZone # null
        /\ currentZone.id \in {"zone-1", "zone-2"}
C6_Witness ==
    /\ Searched /\ ExampleRegistry
    /\ findZoneCalls[1] = <<Lng1815, Lat5901>>
    /\ currentZone # null
    /\ currentZone.id = "zone-2"

\* C8: findZone is called only after the response held at least one
\* feature, and then with that feature's [lng, lat]; when the response has
\* no feature, or the fetch or the JSON parsing fails, findZone is not called
\* in that search, currentZone stays null and error is set.
C8_ClassifyOnlyWithFeature ==
    /\ findZoneCalls # <<>> =>
           /\ data # null /\ HasFeature(data)
           /\ findZoneCalls = <<data.features[1].center>>
    /\ (appPc = "idle" /\ outcome \in {"noFeature", "fetchFailed", "parseFailed"}) =>
           /\ findZoneCalls = <<>>
           /\ currentZone = null
           /\ error # null
C8_Witness ==
    /\ appPc = "idle" /\ outcome = "fetchFailed"
    /\ marker # null
    /\ findZoneCalls = <<>> /\ error # null

\* C10: a search starts only while loading is false; it sets loading, and
\* however it ends it leaves loading false; whenever loading is false, error
\* and currentZone are not both non-null.
C10_LoadingAndResult ==
    /\ appPc \in {"fetch", "json"} => loading
    /\ (appPc = "idle" /\ outcome # "none") => ~loading
    /\ ~loading => ~(error # null /\ currentZone # null)
C10_Witness ==
    /\ appPc = "idle" /\ outcome = "threw"
    /\ marker # null
    /\ ~loading /\ error # null /\ currentZone = null

====
